---- MODULE Spec2Model ----
(***************************************************************************)
(* A model of download_asmr.py: the manifest fetch and the flattening of    *)
(* the manifest tree, the selection session of main (the text written for  *)
(* the editor and the parse of what is read back) and the download loop of *)
(* main (skip, staging, URL resolution by HEAD checks, resuming fetches,   *)
(* relocation, interrupt handling), over several runs.                     *)
(*                                                                         *)
(* A string is a sequence of one-character strings.  A file on disk is a   *)
(* record [ex, data]: whether it exists and the bytes it holds.            *)
(***************************************************************************)
EXTENDS Integers, Sequences, FiniteSets, TLC

\* ------------------------------------------------------------------ bounds
\* number of entries of the flattened manifest
NFiles == 2
\* largest declared size of a file, in bytes
MaxSize == 2
\* how many bytes beyond the declared size the transport may deliver
Over == 1
\* number of consecutive runs of the program
MaxRuns == 2
\* number of consecutive failed fetches that are followed
MaxFails == 1
\* longest title of a manifest node, in characters
MaxTitle == 1
\* number of exchanges of two lines the user makes in the editor
MaxSwaps == 1
\* number of nodes of a manifest tree, the root not counted
MaxNodes == 4

VARIABLES
    directory,          \* main: directory, the manifest tree
    files,              \* main: files, the flattened manifest
    show_detail,        \* main: args.detail
    spc,                \* position of main inside the selection session
    temp_dir,           \* whether the temporary selection directory exists
    temp_file,          \* the temporary selection file
    selected_files,     \* main: selected_files, the lines read back
    removed,            \* the entry whose path line the user removed (0: none)
    swaps,              \* how many times the user exchanged two lines
    run,                \* which run of the program this is
    pc,                 \* position of main inside the download loop
    outcome,            \* how main ended: returned, or the exception raised
    selected,           \* main: selected_files_data, as indices into files
    cur,                \* index into selected of the file being processed
    dest,               \* the destination files, by index into files
    parents,            \* entries whose destination parent directory exists
    download_temp_dir,  \* whether the staging directory exists
    staging,            \* the staging files, by staging name
    url,                \* main: url, the URL the download loop fetches
    calls,              \* transport calls issued during this run
    fails,              \* consecutive failed fetches of the current file
    seed,               \* how the staging file of the current file was made
    dest0,              \* the destination files when this run started
    intr,               \* the interrupt caught in this run's download loop
    prevIntr            \* the interrupt caught in the previous run

selvars == <<show_detail, spc, temp_dir, temp_file, selected_files, removed, swaps>>
dlvars == <<run, pc, outcome, selected, cur, dest, parents, download_temp_dir,
            staging, url, calls, fails, seed, dest0, intr, prevIntr>>
vars == <<directory, files, selvars, dlvars>>

\* ------------------------------------------------------- strings and files
RECURSIVE Repeat(_, _)
Repeat(b, n) == IF n = 0 THEN <<>> ELSE <<b>> \o Repeat(b, n - 1)

\* a file that does not exist, and a file holding data
NoFile == [ex |-> FALSE, data |-> <<>>]
File(data) == [ex |-> TRUE, data |-> data]

\* file_path.stat().st_size
Size(file) == Len(file.data)

\* the hashes a manifest entry may carry
Hashes == {<<"a", "/", "b">>, <<"a", "_", "b">>, <<"c">>}

\* file_info["hash"].replace("/", "_")
RECURSIVE Replace(_, _, _)
Replace(s, old, new) ==
    IF s = <<>> THEN <<>>
    ELSE <<IF Head(s) = old THEN new ELSE Head(s)>> \o Replace(Tail(s), old, new)

\* the names a staging file may have inside download_temp_dir
StagingNames == {Replace(h, "/", "_") : h \in Hashes}

\* no interrupt was caught
NoIntr == [file |-> 0, data |-> <<>>]

\* the two URLs of a manifest entry
Urls == {"mediaDownloadUrl", "mediaStreamUrl"}

\* the status codes a HEAD check may answer with
Statuses == {200, 404}

\* the header block curl --head prints: its first line, as tokens
HeadResponses == {<<"HTTP/2", c>> : c \in Statuses}

\* --------------------------------------------------------------- manifest
\* str(path) of a pathlib.PurePath whose components are the given titles
RECURSIVE PathStr(_)
PathStr(path) ==
    IF path = <<>> THEN <<".">>
    ELSE IF Len(path) = 1 THEN path[1]
    ELSE path[1] \o <<"/">> \o PathStr(Tail(path))

\* ----------------------------------------------------------- manifest tree
\* directory.get("children", [])
Children(node) == IF "children" \in DOMAIN node THEN node.children ELSE <<>>

\* convert_directory_to_files(directory, current_path), node standing for
\* directory: the for loop over the children from the i-th on, then the
\* whole function; a path is the
\* sequence of its components, PurePath(".") the empty one
\* variant: the recursion into a folder does not extend the path
RECURSIVE ConvertFromSamePath(_, _, _)
ConvertFromSamePath(node, current_path, i) ==
    IF i > Len(Children(node)) THEN <<>>
    ELSE LET item == Children(node)[i] IN
         (IF item.type = "folder"
          THEN ConvertFromSamePath(item, current_path, 1)
          ELSE <<[path |-> current_path \o <<item.title>>, info |-> item]>>)
         \o ConvertFromSamePath(node, current_path, i + 1)

RECURSIVE ConvertFrom(_, _, _)
ConvertFrom(node, current_path, i) ==
    IF i > Len(Children(node)) THEN <<>>
    ELSE LET item == Children(node)[i] IN
         (IF item.type = "folder"
          THEN ConvertFrom(item, current_path \o <<item.title>>, 1)
          ELSE <<[path |-> current_path \o <<item.title>>, info |-> item]>>)
         \o ConvertFrom(node, current_path, i + 1)

convert_directory_to_files(node, current_path) ==
    ConvertFrom(node, current_path, 1)

\* the tree main builds around the answer of the tracks API
Root(children) == [type |-> "folder", children |-> children]

\* a manifest tree that flattens to the given entries: an entry below a
\* folder gets a folder of its own
DirectoryOf(fs) ==
    Root([f \in 1..Len(fs) |->
            IF Len(fs[f].path) = 1 THEN fs[f].info
            ELSE [type |-> "folder", title |-> fs[f].path[1],
                  children |-> <<fs[f].info>>]])

\* file_info["size"] of entry f
Declared(f) == files[f].info.size

\* download_temp_file of entry f: download_temp_dir / hash.replace("/", "_")
StageName(f) == Replace(files[f].info.hash, "/", "_")

\* the indices of a set, in ascending order
RECURSIVE Ascending(_)
Ascending(S) ==
    IF S = {} THEN <<>>
    ELSE LET m == CHOOSE x \in S : \A y \in S : x <= y
         IN <<m>> \o Ascending(S \ {m})

\* the elements of a sequence
Range(s) == {s[i] : i \in 1..Len(s)}

\* [file for file in files if str(file[0]) in selected_files], as indices
RECURSIVE SelectedFrom(_, _)
SelectedFrom(i, lines) ==
    IF i > Len(files) THEN <<>>
    ELSE (IF PathStr(files[i].path) \in Range(lines) THEN <<i>> ELSE <<>>)
         \o SelectedFrom(i + 1, lines)

SelectedData(lines) == SelectedFrom(1, lines)

\* the path strings of the entries of S, in manifest order
PathsOf(S) == [k \in 1..Cardinality(S) |-> PathStr(files[Ascending(S)[k]].path)]

\* ------------------------------------------------------- the download loop
\* the file the for loop is at
CurFile == selected[cur]

\* file_output_path.stat().st_size >= file_info["size"]
\* variant: a destination of exactly the declared size is not complete
IsCompleteStrict(f) == Size(dest[f]) > Declared(f)
IsComplete(f) == Size(dest[f]) >= Declared(f)

\* the staging file made for entry f: a copy of the destination, or empty
\* variant: the staging file always starts empty
SeedAlwaysEmpty(f) == File(<<>>)
\* variant: without a destination, a staging file that exists is kept
SeedKeepsStaging(f) ==
    IF dest[f].ex THEN File(dest[f].data)
    ELSE IF staging[StageName(f)].ex THEN staging[StageName(f)]
    ELSE File(<<>>)
Seed(f) == IF dest[f].ex THEN File(dest[f].data) ELSE File(<<>>)

\* download_temp_file.stat().st_size < file_info["size"]
\* variant: the loop stops one byte short
LoopCondShort(f) == Size(staging[StageName(f)]) < Declared(f) - 1
LoopCond(f) == Size(staging[StageName(f)]) < Declared(f)

\* int(response_header.splitlines()[0].split()[1])
StatusCode(response_header) == response_header[2]

\* a transport call as it is recorded
Call(f, kind, u, code) == [file |-> f, kind |-> kind, url |-> u, code |-> code]

\* variant: curl writes the k bytes over the staging file
AppendedAnew(f, k) == File(Repeat(f, k))

\* what curl --continue-at - leaves in the staging file after receiving k bytes
Appended(f, k) == File(staging[StageName(f)].data \o Repeat(f, k))

\* TemporaryDirectory.__exit__: the staging directory and its files are removed
NoStaging == [n \in StagingNames |-> NoFile]

\* the for loop goes on with the next file
NextFile ==
    /\ cur' = cur + 1
    /\ pc' = "next"
    /\ url' = "none"
    /\ fails' = 0
    /\ seed' = "none"

\* main leaves the with block of the staging directory and ends
EndWith(how) ==
    /\ pc' = "done"
    /\ outcome' = how
    /\ download_temp_dir' = FALSE
    /\ url' = "none"
    /\ fails' = 0
    /\ seed' = "none"

\* variant: the fetches start without any HEAD check
StartFileNoCheck ==
    /\ pc = "next"
    /\ cur <= Len(selected)
    /\ LET f == CurFile IN
       /\ parents' = parents \cup {f}
       /\ IF dest[f].ex /\ IsComplete(f)
          THEN /\ NextFile
               /\ UNCHANGED staging
          ELSE /\ staging' = [staging EXCEPT ![StageName(f)] = Seed(f)]
               /\ seed' = IF dest[f].ex THEN "copy" ELSE "empty"
               /\ pc' = "loop"
               /\ url' = "mediaDownloadUrl"
               /\ UNCHANGED <<cur, fails>>
    /\ UNCHANGED <<directory, files, selvars, run, outcome, selected, dest,
                   download_temp_dir, calls, dest0, intr, prevIntr>>

\* top of the for loop up to the first HEAD check
StartFile ==
    /\ pc = "next"
    /\ cur <= Len(selected)
    /\ LET f == CurFile IN
       /\ parents' = parents \cup {f}
       /\ IF dest[f].ex /\ IsComplete(f)
          THEN /\ NextFile
               /\ UNCHANGED staging
          ELSE /\ staging' = [staging EXCEPT ![StageName(f)] = Seed(f)]
               /\ seed' = IF dest[f].ex THEN "copy" ELSE "empty"
               /\ pc' = "head1"
               /\ url' = "mediaDownloadUrl"
               /\ UNCHANGED <<cur, fails>>
    /\ UNCHANGED <<directory, files, selvars, run, outcome, selected, dest,
                   download_temp_dir, calls, dest0, intr, prevIntr>>

\* the HEAD check of the primary URL answers
HeadPrimary(response_header) ==
    /\ pc = "head1"
    /\ calls' = calls \cup {Call(CurFile, "HEAD", url, StatusCode(response_header))}
    /\ IF StatusCode(response_header) # 200
       THEN /\ url' = "mediaStreamUrl"
            /\ pc' = "head2"
       ELSE /\ pc' = "loop"
            /\ UNCHANGED url
    /\ UNCHANGED <<directory, files, selvars, run, outcome, selected, cur, dest, parents,
                   download_temp_dir, staging, fails, seed, dest0, intr,
                   prevIntr>>

\* the HEAD check of the fallback URL answers
\* variant: the status of the fallback URL is ignored
HeadFallbackGoesOn(response_header) ==
    /\ pc = "head2"
    /\ calls' = calls \cup {Call(CurFile, "HEAD", url, StatusCode(response_header))}
    /\ pc' = "loop"
    /\ UNCHANGED <<directory, files, selvars, run, outcome, selected, cur, dest, parents,
                   download_temp_dir, staging, url, fails, seed, dest0, intr,
                   prevIntr>>

\* variant: the loop fetches the primary URL after the fallback answered 200
HeadFallbackRevertsUrl(response_header) ==
    /\ pc = "head2"
    /\ calls' = calls \cup {Call(CurFile, "HEAD", url, StatusCode(response_header))}
    /\ IF StatusCode(response_header) # 200
       THEN NextFile
       ELSE /\ pc' = "loop"
            /\ url' = "mediaDownloadUrl"
            /\ UNCHANGED <<cur, fails, seed>>
    /\ UNCHANGED <<directory, files, selvars, run, outcome, selected, dest, parents,
                   download_temp_dir, staging, dest0, intr, prevIntr>>

HeadFallback(response_header) ==
    /\ pc = "head2"
    /\ calls' = calls \cup {Call(CurFile, "HEAD", url, StatusCode(response_header))}
    /\ IF StatusCode(response_header) # 200
       THEN NextFile
       ELSE /\ pc' = "loop"
            /\ UNCHANGED <<cur, url, fails, seed>>
    /\ UNCHANGED <<directory, files, selvars, run, outcome, selected, dest, parents,
                   download_temp_dir, staging, dest0, intr, prevIntr>>

\* variant: the HEAD checks stand inside the try block, whose finally
\* clause relocates the staging file
HeadRaisesMoves(exception) ==
    /\ pc \in {"head1", "head2"}
    /\ calls' = calls \cup {Call(CurFile, "HEAD", url, 0)}
    /\ EndWith(exception)
    /\ staging' = NoStaging
    /\ dest' = [dest EXCEPT ![CurFile] = staging[StageName(CurFile)]]
    /\ UNCHANGED <<directory, files, selvars, run, selected, cur, parents, dest0,
                   intr, prevIntr>>

\* variant: a failing HEAD check skips the file
HeadRaisesSkips(exception) ==
    /\ pc \in {"head1", "head2"}
    /\ calls' = calls \cup {Call(CurFile, "HEAD", url, 0)}
    /\ NextFile
    /\ UNCHANGED <<directory, files, selvars, run, outcome, selected, dest,
                   parents, download_temp_dir, staging, dest0, intr, prevIntr>>

\* a HEAD check fails in curl (CalledProcessError) or is interrupted
\* (KeyboardInterrupt): neither is caught, main ends with the exception
HeadRaises(exception) ==
    /\ pc \in {"head1", "head2"}
    /\ calls' = calls \cup {Call(CurFile, "HEAD", url, 0)}
    /\ EndWith(exception)
    /\ staging' = NoStaging
    /\ UNCHANGED <<directory, files, selvars, run, selected, cur, dest, parents, dest0,
                   intr, prevIntr>>

\* one pass of the while loop: a fetch that delivers k bytes and then ends,
\* with exit status zero (ok) or not (CalledProcessError, swallowed)
\* variant: a failed fetch ends the loop and skips the file
FetchGivesUp(k, ok) ==
    /\ pc = "loop"
    /\ LoopCond(CurFile)
    /\ k \in 0..(Declared(CurFile) + Over - Size(staging[StageName(CurFile)]))
    /\ ~ok => fails < MaxFails
    /\ calls' = calls \cup {Call(CurFile, "GET", url, 0)}
    /\ staging' = [staging EXCEPT ![StageName(CurFile)] = Appended(CurFile, k)]
    /\ IF ok
       THEN /\ fails' = 0
            /\ UNCHANGED <<pc, cur, url, seed>>
       ELSE NextFile
    /\ UNCHANGED <<directory, files, selvars, run, outcome, selected, dest, parents,
                   download_temp_dir, dest0, intr, prevIntr>>

\* variant: curl is run without --continue-at and writes the file anew
FetchRestarts(k, ok) ==
    /\ pc = "loop"
    /\ LoopCond(CurFile)
    /\ k \in 0..(Declared(CurFile) + Over - Size(staging[StageName(CurFile)]))
    /\ ~ok => fails < MaxFails
    /\ calls' = calls \cup {Call(CurFile, "GET", url, 0)}
    /\ staging' = [staging EXCEPT ![StageName(CurFile)] = File(Repeat(CurFile, k))]
    /\ fails' = IF ok THEN 0 ELSE fails + 1
    /\ UNCHANGED <<directory, files, selvars, run, pc, outcome, selected, cur, dest,
                   parents, download_temp_dir, url, seed, dest0, intr, prevIntr>>

Fetch(k, ok) ==
    /\ pc = "loop"
    /\ LoopCond(CurFile)
    /\ k \in 0..(Declared(CurFile) + Over - Size(staging[StageName(CurFile)]))
    /\ ~ok => fails < MaxFails
    /\ calls' = calls \cup {Call(CurFile, "GET", url, 0)}
    /\ staging' = [staging EXCEPT ![StageName(CurFile)] = Appended(CurFile, k)]
    /\ fails' = IF ok THEN 0 ELSE fails + 1
    /\ UNCHANGED <<directory, files, selvars, run, pc, outcome, selected, cur, dest,
                   parents, download_temp_dir, url, seed, dest0, intr, prevIntr>>

\* variant: the staging file is copied, not moved, to the destination
FinishCopies ==
    /\ pc = "loop"
    /\ ~LoopCond(CurFile)
    /\ dest' = [dest EXCEPT ![CurFile] = staging[StageName(CurFile)]]
    /\ NextFile
    /\ UNCHANGED <<directory, files, selvars, run, outcome, selected, parents,
                   download_temp_dir, staging, calls, dest0, intr, prevIntr>>

\* the while loop ends; finally: shutil.move(download_temp_file, file_output_path)
Finish ==
    /\ pc = "loop"
    /\ ~LoopCond(CurFile)
    /\ dest' = [dest EXCEPT ![CurFile] = staging[StageName(CurFile)]]
    /\ staging' = [staging EXCEPT ![StageName(CurFile)] = NoFile]
    /\ NextFile
    /\ UNCHANGED <<directory, files, selvars, run, outcome, selected, parents,
                   download_temp_dir, calls, dest0, intr, prevIntr>>

\* KeyboardInterrupt inside the try block, either while a fetch is in flight
\* (it has delivered k bytes) or between fetches: except KeyboardInterrupt:
\* break, after the finally clause has moved the staging file
\* variant: the interrupt handler continues with the next file
LoopInterruptContinues(k, inflight) ==
    /\ pc = "loop"
    /\ inflight => LoopCond(CurFile)
    /\ k \in 0..(IF inflight
                 THEN Declared(CurFile) + Over - Size(staging[StageName(CurFile)])
                 ELSE 0)
    /\ calls' = IF inflight THEN calls \cup {Call(CurFile, "GET", url, 0)} ELSE calls
    /\ intr' = [file |-> CurFile, data |-> Appended(CurFile, k).data]
    /\ dest' = [dest EXCEPT ![CurFile] = Appended(CurFile, k)]
    /\ staging' = [staging EXCEPT ![StageName(CurFile)] = NoFile]
    /\ NextFile
    /\ UNCHANGED <<directory, files, selvars, run, outcome, selected, parents,
                   download_temp_dir, dest0, prevIntr>>

\* variant: the staging file is not moved on interrupt
LoopInterruptNoMove(k, inflight) ==
    /\ pc = "loop"
    /\ inflight => LoopCond(CurFile)
    /\ k \in 0..(IF inflight
                 THEN Declared(CurFile) + Over - Size(staging[StageName(CurFile)])
                 ELSE 0)
    /\ calls' = IF inflight THEN calls \cup {Call(CurFile, "GET", url, 0)} ELSE calls
    /\ intr' = [file |-> CurFile, data |-> Appended(CurFile, k).data]
    /\ staging' = NoStaging
    /\ EndWith("returned")
    /\ UNCHANGED <<directory, files, selvars, run, selected, cur, dest, parents, dest0,
                   prevIntr>>

LoopInterrupt(k, inflight) ==
    /\ pc = "loop"
    /\ inflight => LoopCond(CurFile)
    /\ k \in 0..(IF inflight
                 THEN Declared(CurFile) + Over - Size(staging[StageName(CurFile)])
                 ELSE 0)
    /\ calls' = IF inflight THEN calls \cup {Call(CurFile, "GET", url, 0)} ELSE calls
    /\ intr' = [file |-> CurFile, data |-> Appended(CurFile, k).data]
    /\ dest' = [dest EXCEPT ![CurFile] = Appended(CurFile, k)]
    /\ staging' = NoStaging
    /\ EndWith("returned")
    /\ UNCHANGED <<directory, files, selvars, run, selected, cur, parents, dest0, prevIntr>>

\* the for loop is exhausted: main leaves the with block and returns
EndRun ==
    /\ pc = "next"
    /\ cur > Len(selected)
    /\ EndWith("returned")
    /\ staging' = NoStaging
    /\ UNCHANGED <<directory, files, selvars, run, selected, cur, dest, parents, calls,
                   dest0, intr, prevIntr>>

\* main as it enters the for loop with the files the user kept
EnterLoop(lines) ==
    /\ selected_files' = lines
    /\ selected' = SelectedData(lines)
    /\ cur' = 1
    /\ pc' = "next"
    /\ outcome' = "running"
    /\ download_temp_dir' = TRUE
    /\ staging' = NoStaging
    /\ url' = "none"
    /\ calls' = {}
    /\ fails' = 0
    /\ seed' = "none"
    /\ dest0' = dest
    /\ intr' = NoIntr

\* the program is started again on the same manifest and output path
NewRun(S) ==
    /\ pc = "done"
    /\ run < MaxRuns
    /\ run' = run + 1
    /\ prevIntr' = intr
    /\ EnterLoop(PathsOf(S))
    /\ UNCHANGED <<directory, files, show_detail, spc, temp_dir, temp_file, removed, swaps,
                   dest, parents>>

\* the manifests of the download runs: plain distinct titles, MaxSize bytes
\* declared, a path separator in the hash of the first entry and in no other
Manifests ==
    {[f \in 1..NFiles |->
        [path |-> <<Repeat("a", f)>>,
         info |-> [type |-> "audio", title |-> Repeat("a", f),
                   size |-> MaxSize, hash |-> hs[f]]]] :
     hs \in {h \in [1..NFiles -> Hashes] :
                \A f \in 1..NFiles : (f = 1) <=> (h[f] = <<"a", "/", "b">>)}}

\* the state in which main enters the for loop: the user kept the entries of
\* some set S, the destination of each of them is absent or holds up to
\* MaxSize + Over bytes, the other entries have no destination
Init ==
    /\ files \in Manifests
    /\ directory = DirectoryOf(files)
    /\ show_detail = FALSE
    /\ spc = "done"
    /\ temp_dir = FALSE
    /\ temp_file = NoFile
    /\ removed = 0
    /\ swaps = 0
    /\ run = 1
    /\ prevIntr = NoIntr
    /\ \E S \in SUBSET (1..NFiles) :
          /\ selected_files = PathsOf(S)
          /\ selected = SelectedData(PathsOf(S))
          /\ \E n \in [1..NFiles -> -1..(MaxSize + Over)] :
                /\ \A f \in 1..NFiles : f \notin S => n[f] = -1
                /\ dest = [f \in 1..NFiles |->
                              IF n[f] < 0 THEN NoFile ELSE File(Repeat(f, n[f]))]
    /\ parents = {f \in 1..NFiles : dest[f].ex}
    /\ cur = 1
    /\ pc = "next"
    /\ outcome = "running"
    /\ download_temp_dir = TRUE
    /\ staging = NoStaging
    /\ url = "none"
    /\ calls = {}
    /\ fails = 0
    /\ seed = "none"
    /\ dest0 = dest
    /\ intr = NoIntr

Next ==
    \/ StartFile
    \/ \E r \in HeadResponses : HeadPrimary(r)
    \/ \E r \in HeadResponses : HeadFallback(r)
    \/ \E e \in {"CalledProcessError", "KeyboardInterrupt"} : HeadRaises(e)
    \/ \E k \in 0..(MaxSize + Over), ok \in BOOLEAN : Fetch(k, ok)
    \/ Finish
    \/ \E k \in 0..(MaxSize + Over), fl \in BOOLEAN : LoopInterrupt(k, fl)
    \/ EndRun

\* one run of the download loop, from any state of the destination tree
Spec == Init /\ [][Next]_vars

\* several runs on one manifest, the first run into an empty output directory
InitRuns ==
    /\ Init
    /\ \A f \in 1..NFiles : ~dest[f].ex
    /\ \A f \in 2..NFiles : files[f].info.hash = <<"c">>

NextRuns ==
    \/ Next
    \/ \E S \in SUBSET (1..NFiles) : NewRun(S)

SpecRuns == InitRuns /\ [][NextRuns]_vars

\* ---------------------------------------------------- the selection session
\* the characters of a title
Chars == {"a", "#", " "}

\* the strings of exactly n characters
RECURSIVE Strings(_)
Strings(n) ==
    IF n = 0 THEN {<<>>}
    ELSE {<<c>> \o t : c \in Chars, t \in Strings(n - 1)}

\* the titles of manifest nodes: one to MaxTitle characters
Titles == UNION {Strings(n) : n \in 1..MaxTitle}

\* the characters str.strip() removes
Whitespace == {" ", "\n"}

\* line.strip()
RECURSIVE LStrip(_)
LStrip(s) ==
    IF s # <<>> /\ Head(s) \in Whitespace THEN LStrip(Tail(s)) ELSE s

RECURSIVE RStrip(_)
RStrip(s) ==
    IF s # <<>> /\ s[Len(s)] \in Whitespace
    THEN RStrip(SubSeq(s, 1, Len(s) - 1))
    ELSE s

Strip(s) == RStrip(LStrip(s))

\* line.strip().startswith("#")
IsComment(stripped) == stripped # <<>> /\ Head(stripped) = "#"

\* for line in temp_file: the lines of a text, each with its line end
RECURSIVE SplitLines(_, _)
SplitLines(text, line) ==
    IF text = <<>> THEN (IF line = <<>> THEN <<>> ELSE <<line>>)
    ELSE IF Head(text) = "\n"
         THEN <<line \o <<"\n">>>> \o SplitLines(Tail(text), <<>>)
         ELSE SplitLines(Tail(text), line \o <<Head(text)>>)

Lines(text) == SplitLines(text, <<>>)

\* the text made of the given lines
RECURSIVE Flatten(_)
Flatten(lines) ==
    IF lines = <<>> THEN <<>> ELSE Head(lines) \o Flatten(Tail(lines))

\* [line.strip() for line in temp_file
\*  if line.strip() and not line.strip().startswith("#")]
RECURSIVE KeepLines(_)
KeepLines(lines) ==
    IF lines = <<>> THEN <<>>
    ELSE (IF Strip(Head(lines)) # <<>> /\ ~IsComment(Strip(Head(lines)))
          THEN <<Strip(Head(lines))>>
          ELSE <<>>) \o KeepLines(Tail(lines))

ParseSelection(text) == KeepLines(Lines(text))

\* the two comment lines and the blank line that head the text
Header == <<"#", " ", "1", "\n">> \o <<"#", " ", "2", "\n", "\n">>

\* the comment line of an entry under --detail; "s" and "d" stand for the
\* formatted size and duration
DetailLine(info) ==
    <<"#", " ", "s">>
    \o (IF info.type = "audio" THEN <<",", " ", "d">> ELSE <<>>)
    \o <<"\n">>

\* what the for loop over files writes for the entries from i on
RECURSIVE EntryLines(_)
EntryLines(i) ==
    IF i > Len(files) THEN <<>>
    ELSE (IF show_detail THEN DetailLine(files[i].info) ELSE <<>>)
         \o PathStr(files[i].path) \o <<"\n">>
         \o EntryLines(i + 1)

\* content.getvalue()
Content == Header \o EntryLines(1)

\* the line of the written text that holds the path of entry i
PathLine(i) == 3 + i * (IF show_detail THEN 2 ELSE 1)

\* the download state of main while it is still in the selection session
NotDownloading ==
    /\ run = 1
    /\ pc = "select"
    /\ outcome = "running"
    /\ selected = <<>>
    /\ cur = 1
    /\ dest = [f \in 1..NFiles |-> NoFile]
    /\ parents = {}
    /\ download_temp_dir = FALSE
    /\ staging = NoStaging
    /\ url = "none"
    /\ calls = {}
    /\ fails = 0
    /\ seed = "none"
    /\ dest0 = dest
    /\ intr = NoIntr
    /\ prevIntr = NoIntr

\* main writes the temporary file and starts the editor
OpenEditor ==
    /\ pc = "select"
    /\ spc = "start"
    /\ temp_dir' = TRUE
    /\ temp_file' = File(Content)
    /\ spc' = "editor"
    /\ UNCHANGED <<directory, files, show_detail, selected_files, removed, swaps, dlvars>>

\* the user deletes the path line of entry i, or comments it out
RemoveEntry(i, comment) ==
    /\ spc = "editor"
    /\ removed = 0
    /\ swaps = 0
    /\ i \in 1..Len(files)
    /\ LET lines == Lines(temp_file.data)
           n == PathLine(i)
       IN temp_file' = File(Flatten(
              SubSeq(lines, 1, n - 1)
              \o (IF comment THEN <<<<"#">> \o lines[n]>> ELSE <<>>)
              \o SubSeq(lines, n + 1, Len(lines))))
    /\ removed' = i
    /\ UNCHANGED <<directory, files, show_detail, spc, temp_dir, selected_files, swaps, dlvars>>

\* the user exchanges line j and the line after it, below the heading lines
SwapLines(j) ==
    /\ spc = "editor"
    /\ swaps < MaxSwaps
    /\ LET lines == Lines(temp_file.data) IN
       /\ j \in 4..(Len(lines) - 1)
       /\ temp_file' = File(Flatten(
              SubSeq(lines, 1, j - 1) \o <<lines[j + 1], lines[j]>>
              \o SubSeq(lines, j + 2, Len(lines))))
    /\ swaps' = swaps + 1
    /\ UNCHANGED <<directory, files, show_detail, spc, temp_dir, selected_files, removed, dlvars>>

\* the editor exits with status zero: main reads the file back, leaves the
\* with block of the temporary directory, filters the entries and enters
\* the with block of the staging directory
ReadBack ==
    /\ spc = "editor"
    /\ spc' = "done"
    /\ temp_file' = NoFile
    /\ temp_dir' = FALSE
    /\ EnterLoop(ParseSelection(temp_file.data))
    /\ UNCHANGED <<directory, files, show_detail, removed, swaps, run, dest, parents, prevIntr>>

\* variant: the temporary directory is made without a with block and is
\* left behind when the editor call raises
EditorRaisesLeavesFile(exception) ==
    /\ spc = "editor"
    /\ spc' = "done"
    /\ pc' = "done"
    /\ outcome' = exception
    /\ UNCHANGED <<directory, files, show_detail, temp_dir, temp_file,
                   selected_files, removed, swaps, run, selected, cur, dest,
                   parents, download_temp_dir, staging, url, calls, fails, seed,
                   dest0, intr, prevIntr>>

\* the editor exits with a failure status (CalledProcessError) or main is
\* interrupted while it waits (KeyboardInterrupt): main ends with the exception
EditorRaises(exception) ==
    /\ spc = "editor"
    /\ spc' = "done"
    /\ temp_file' = NoFile
    /\ temp_dir' = FALSE
    /\ pc' = "done"
    /\ outcome' = exception
    /\ UNCHANGED <<directory, files, show_detail, selected_files, removed, swaps, run,
                   selected, cur, dest, parents, download_temp_dir, staging,
                   url, calls, fails, seed, dest0, intr, prevIntr>>

\* the manifests of the selection session: entries with odd index lie at the
\* top level, the others in the folder "d"; titles are unique within a folder
SelManifests ==
    {m \in {[f \in 1..NFiles |->
               [path |-> IF f % 2 = 1 THEN <<t[f]>> ELSE <<<<"d">>, t[f]>>,
                info |-> [type |-> IF f % 2 = 1 THEN "audio" ELSE "text",
                          title |-> t[f], size |-> MaxSize, hash |-> <<"c">>]]] :
             t \in [1..NFiles -> Titles]} :
        \A f, g \in 1..NFiles : f # g => m[f].path # m[g].path}

InitSel ==
    /\ files \in SelManifests
    /\ directory = DirectoryOf(files)
    /\ show_detail \in BOOLEAN
    /\ spc = "start"
    /\ temp_dir = FALSE
    /\ temp_file = NoFile
    /\ selected_files = <<>>
    /\ removed = 0
    /\ swaps = 0
    /\ NotDownloading

NextSel ==
    \/ OpenEditor
    \/ \E i \in 1..NFiles, c \in BOOLEAN : RemoveEntry(i, c)
    \/ \E j \in 4..(3 + 2 * NFiles) : SwapLines(j)
    \/ ReadBack
    \/ \E e \in {"CalledProcessError", "KeyboardInterrupt"} : EditorRaises(e)

\* the selection session of one run, up to the start of the download loop
SpecSel == InitSel /\ [][NextSel]_vars

\* one run of the download loop in which main is not interrupted and every
\* HEAD check is answered; a destination that exists is complete
InitLive ==
    /\ Init
    /\ \A f \in 1..NFiles : dest[f].ex => Size(dest[f]) = Declared(f)

NextLive ==
    \/ StartFile
    \/ \E r \in HeadResponses : HeadPrimary(r)
    \/ \E r \in HeadResponses : HeadFallback(r)
    \/ \E k \in 0..(MaxSize + Over), ok \in BOOLEAN : Fetch(k, ok)
    \/ Finish
    \/ EndRun

\* main goes on whenever it can: the statements between two transport calls
\* run, a HEAD check is answered, and a fetch into a staging file below the
\* declared size eventually appends at least one byte
Progress ==
    /\ WF_vars(StartFile)
    /\ WF_vars(\E r \in HeadResponses : HeadPrimary(r))
    /\ WF_vars(\E r \in HeadResponses : HeadFallback(r))
    /\ WF_vars(\E k \in 1..(MaxSize + Over), ok \in BOOLEAN : Fetch(k, ok))
    /\ WF_vars(Finish)
    /\ WF_vars(EndRun)

SpecLive == InitLive /\ [][NextLive]_vars /\ Progress

\* ---------------------------------------------------------- manifest fetch
\* the shapes of a tree of n nodes: node i hangs below an earlier folder (0:
\* the root) and is a folder with children, a folder whose dictionary has no
\* "children" key, or a file; siblings are listed by ascending number
Shapes(n) ==
    {e \in [1..n -> [parent : 0..(n - 1), kind : {"folder", "bare", "audio"}]] :
        \A i \in 1..n :
            /\ e[i].parent < i
            /\ e[i].parent > 0 => e[e[i].parent].kind = "folder"}

\* the node dictionaries of a shape; the title of node i is i letters long
RECURSIVE NodeOf(_, _)
RECURSIVE ChildrenOf(_, _)
NodeOf(e, i) ==
    IF e[i].kind = "audio"
    THEN [type |-> "audio", title |-> Repeat("a", i), size |-> MaxSize,
          hash |-> <<"c">>]
    ELSE IF e[i].kind = "bare"
    THEN [type |-> "folder", title |-> Repeat("a", i)]
    ELSE [type |-> "folder", title |-> Repeat("a", i),
          children |-> ChildrenOf(e, i)]

ChildrenOf(e, p) ==
    LET cs == Ascending({c \in DOMAIN e : e[c].parent = p})
    IN [k \in 1..Len(cs) |-> NodeOf(e, cs[k])]

\* what the tracks API may answer with: the children of the root
Trees == UNION {{ChildrenOf(e, 0) : e \in Shapes(n)} : n \in 0..MaxNodes}

\* the answers of the tracks API that flatten to a manifest of the download runs
FlatTrees == {[f \in 1..NFiles |-> m[f].info] : m \in Manifests}

\* the state in which main is entered, the output directory still empty
InitMain ==
    /\ directory = Root(<<>>)
    /\ files = <<>>
    /\ show_detail = FALSE
    /\ spc = "start"
    /\ temp_dir = FALSE
    /\ temp_file = NoFile
    /\ selected_files = <<>>
    /\ removed = 0
    /\ swaps = 0
    /\ run = 1
    /\ pc = "workinfo"
    /\ outcome = "running"
    /\ selected = <<>>
    /\ cur = 1
    /\ dest = [f \in 1..NFiles |-> NoFile]
    /\ parents = {}
    /\ download_temp_dir = FALSE
    /\ staging = NoStaging
    /\ url = "none"
    /\ calls = {}
    /\ fails = 0
    /\ seed = "none"
    /\ dest0 = dest
    /\ intr = NoIntr
    /\ prevIntr = NoIntr

\* the workInfo API answers: main prints the work and asks for the tracks
LoadWorkInfo ==
    /\ pc = "workinfo"
    /\ pc' = "tracks"
    /\ UNCHANGED <<directory, files, selvars, run, outcome, selected, cur, dest,
                   parents, download_temp_dir, staging, url, calls, fails, seed,
                   dest0, intr, prevIntr>>

\* the tracks API answers: main builds the tree, flattens it and looks for
\* the editor, raising FileNotFoundError when there is none
LoadTracks(children, editor_found) ==
    /\ pc = "tracks"
    /\ directory' = Root(children)
    /\ files' = convert_directory_to_files(directory', <<>>)
    /\ IF editor_found
       THEN pc' = "select" /\ UNCHANGED outcome
       ELSE pc' = "done" /\ outcome' = "FileNotFoundError"
    /\ UNCHANGED <<selvars, run, selected, cur, dest, parents,
                   download_temp_dir, staging, url, calls, fails, seed, dest0,
                   intr, prevIntr>>

\* curl fails on one of the two API requests (CalledProcessError) or main is
\* interrupted while it waits for it (KeyboardInterrupt)
ManifestRaises(exception) ==
    /\ pc \in {"workinfo", "tracks"}
    /\ pc' = "done"
    /\ outcome' = exception
    /\ UNCHANGED <<directory, files, selvars, run, selected, cur, dest, parents,
                   download_temp_dir, staging, url, calls, fails, seed, dest0,
                   intr, prevIntr>>

NextFlat ==
    \/ LoadWorkInfo
    \/ \E c \in Trees, ed \in BOOLEAN : LoadTracks(c, ed)
    \/ \E e \in {"CalledProcessError", "KeyboardInterrupt"} : ManifestRaises(e)

\* the start of main, up to the flattened manifest, over the manifest trees
SpecFlat == InitMain /\ [][NextFlat]_vars

NextMain ==
    \/ LoadWorkInfo
    \/ \E c \in FlatTrees, ed \in BOOLEAN : LoadTracks(c, ed)
    \/ \E e \in {"CalledProcessError", "KeyboardInterrupt"} : ManifestRaises(e)
    \/ OpenEditor
    \/ \E i \in 1..NFiles, c \in BOOLEAN : RemoveEntry(i, c)
    \/ ReadBack
    \/ \E e \in {"CalledProcessError", "KeyboardInterrupt"} : EditorRaises(e)
    \/ Next

\* one whole run of main into an empty output directory: the manifest
\* fetch, the selection session and the download loop
SpecMain == InitMain /\ [][NextMain]_vars

\* ------------------------------------------------------------------ claims
\* entry f was selected and its destination was complete when the run started
SkipCase(f) ==
    /\ f \in Range(selected)
    /\ dest0[f].ex
    /\ Size(dest0[f]) >= Declared(f)

\* the for loop has gone past entry f
Passed(f) == \E i \in 1..Len(selected) : selected[i] = f /\ i < cur

\* entry f is the one being staged, resolved or downloaded
InProgress(f) == pc \in {"head1", "head2", "loop"} /\ CurFile = f

\* C1: a selected file whose destination exists with at least the declared
\* size gets no transport call (HEAD or fetch), is never staged, and its
\* destination stays as it was; the step that reaches it leaves the staging
\* directory untouched.
C1_SkipInvariant ==
    /\ [](\A f \in 1..NFiles : SkipCase(f) =>
            /\ \A c \in calls : c.file # f
            /\ ~InProgress(f)
            /\ dest[f] = dest0[f])
    /\ [][(pc = "next" /\ cur <= Len(selected) /\ SkipCase(selected[cur]))
            => (staging' = staging /\ dest' = dest /\ calls' = calls)]_vars

\* C1 witness: the loop has gone past a file whose destination held exactly
\* the declared size, and has issued calls for another file
C1_Witness ==
    \E f \in 1..NFiles :
        /\ SkipCase(f) /\ Passed(f)
        /\ Declared(f) > 0 /\ Size(dest0[f]) = Declared(f)
        /\ calls # {}

\* C2: when the first transport call of a file is about to be issued, the
\* staging file holds exactly the destination's bytes if the destination
\* exists with 0 < size < declared, and is empty if there is no destination.
C2_ResumeInvariant ==
    pc = "head1" =>
        LET f == CurFile IN
        /\ \A c \in calls : c.file # f
        /\ (dest[f].ex /\ 0 < Size(dest[f]) /\ Size(dest[f]) < Declared(f))
              => staging[StageName(f)] = File(dest[f].data)
        /\ ~dest[f].ex => staging[StageName(f)] = File(<<>>)

\* C2 witness: the first HEAD check of a file with a partial destination
C2_Witness ==
    /\ pc = "head1"
    /\ dest[CurFile].ex
    /\ 0 < Size(dest[CurFile]) /\ Size(dest[CurFile]) < Declared(CurFile)

\* C3 as claimed: when the download loop of a file ends without interrupt,
\* the destination holds exactly the declared number of bytes and the staging
\* file is gone.
C3_CompletionExact ==
    [][(pc = "loop" /\ pc' = "next") =>
          /\ Size(dest'[CurFile]) = Declared(CurFile)
          /\ ~staging'[StageName(CurFile)].ex]_vars

\* C3 as amended: when the download loop of a file ends without interrupt,
\* the destination holds what was staged, which is at least the declared
\* number of bytes, and the staging file is gone.
C3_CompletionAtLeast ==
    [][(pc = "loop" /\ pc' = "next") =>
          /\ dest'[CurFile] = staging[StageName(CurFile)]
          /\ dest'[CurFile].ex
          /\ Size(dest'[CurFile]) >= Declared(CurFile)
          /\ ~staging'[StageName(CurFile)].ex]_vars

\* the HEAD check of URL u of entry f answered with a status in codes
Answered(f, u, codes) ==
    \E c \in calls : c.file = f /\ c.kind = "HEAD" /\ c.url = u /\ c.code \in codes

\* the download loop of entry f was entered and ended without interrupt
Completed(f) == Passed(f) /\ \E u \in Urls : Answered(f, u, {200})

\* C3 witness: a file completed with more bytes than declared, after a
\* partial destination was resumed
C3_Witness ==
    \E f \in 1..NFiles :
        /\ Completed(f)
        /\ Size(dest[f]) > Declared(f)
        /\ dest0[f].ex
        /\ ~staging[StageName(f)].ex

\* C4: if the primary HEAD check answers with a status other than 200 and the
\* fallback HEAD check with 200, every fetch of the file targets the fallback
\* URL; if the primary HEAD check answers 200 the fallback URL is never
\* contacted.
C4_UrlFallback ==
    \A f \in 1..NFiles :
        /\ (Answered(f, "mediaDownloadUrl", Statuses \ {200})
            /\ Answered(f, "mediaStreamUrl", {200}))
              => /\ \A c \in calls : (c.file = f /\ c.kind = "GET")
                                        => c.url = "mediaStreamUrl"
                 /\ InProgress(f) => url = "mediaStreamUrl"
        /\ Answered(f, "mediaDownloadUrl", {200})
              => /\ \A c \in calls : c.file = f => c.url = "mediaDownloadUrl"
                 /\ InProgress(f) => url = "mediaDownloadUrl"

\* C4 witness: after the fallback was chosen, a fetch has failed and the file
\* is still being downloaded
C4_Witness ==
    /\ pc = "loop"
    /\ Answered(CurFile, "mediaDownloadUrl", {404})
    /\ Answered(CurFile, "mediaStreamUrl", {200})
    /\ \E c \in calls : c.file = CurFile /\ c.kind = "GET"
    /\ fails > 0

\* nothing was done for the selected files after position cur
LaterUntouched ==
    \A j \in (cur + 1)..Len(selected) :
        /\ \A c \in calls : c.file # selected[j]
        /\ dest[selected[j]] = dest0[selected[j]]
        /\ selected[j] \in parents => dest0[selected[j]].ex

\* what an interrupt of the download loop leaves behind
InterruptHandled ==
    /\ pc = "done"
    /\ CurFile = intr.file
    /\ dest[intr.file] = File(intr.data)
    /\ staging = NoStaging
    /\ LaterUntouched

\* C5 as claimed: an interrupt in the download loop of file i stops the loop,
\* the staged bytes are moved to the destination of file i, nothing is done
\* for the later files, and the interrupt is propagated out of main.
C5_InterruptPropagated ==
    intr # NoIntr => (InterruptHandled /\ outcome = "KeyboardInterrupt")

\* C5 as amended: an interrupt in the download loop of file i stops the loop,
\* the staged bytes are moved to the destination of file i, nothing is done
\* for the later files, and the interrupt is caught: main returns normally.
C5_InterruptCaught ==
    intr # NoIntr => (InterruptHandled /\ outcome = "returned")

\* C5 witness: an interrupt hit a file with bytes staged while another
\* selected file was still to come
C5_Witness ==
    /\ intr # NoIntr
    /\ Len(intr.data) > 0
    /\ cur < Len(selected)

\* C6: a file interrupted with fewer than the declared bytes staged has a
\* destination holding exactly those bytes, and the next run that selects it
\* does not skip it and seeds its staging file from that destination.
C6_ResumeAcrossRuns ==
    /\ (intr # NoIntr /\ Len(intr.data) < Declared(intr.file))
          => dest[intr.file] = File(intr.data)
    /\ \A i \in 1..Len(selected) :
          LET f == selected[i] IN
          (prevIntr.file = f /\ Len(prevIntr.data) < Declared(f)) =>
              /\ (i > cur \/ (i = cur /\ pc = "next"))
                    => dest[f] = File(prevIntr.data)
              /\ (i = cur /\ pc = "head1")
                    => staging[StageName(f)] = File(prevIntr.data)
              /\ InProgress(f) => seed = "copy"
              /\ i < cur => \E c \in calls : c.file = f /\ c.kind = "HEAD"

\* C6 witness: the run after the interrupt is about to resolve the URL of the
\* interrupted file, whose destination holds some but not all bytes
C6_Witness ==
    /\ run > 1
    /\ pc = "head1"
    /\ prevIntr.file = CurFile
    /\ 0 < Len(prevIntr.data) /\ Len(prevIntr.data) < Declared(CurFile)
    /\ staging[StageName(CurFile)] = File(prevIntr.data)

Abandoned(f) ==
    /\ Answered(f, "mediaDownloadUrl", Statuses \ {200})
    /\ Answered(f, "mediaStreamUrl", Statuses \ {200})

\* C8: when both HEAD checks of a file answer with a status other than 200,
\* no fetch is issued for it, its destination is neither created nor
\* modified, and the for loop goes on with the next file.
C8_UrlFailureNonFatal ==
    /\ [](\A f \in 1..NFiles : Abandoned(f) =>
            /\ \A c \in calls : c.file = f => c.kind = "HEAD"
            /\ dest[f] = dest0[f]
            /\ Passed(f))
    /\ [][\A f \in 1..NFiles :
            (pc = "head2" /\ CurFile = f /\ Abandoned(f)')
               => (pc' = "next" /\ cur' = cur + 1 /\ outcome' = "running")]_vars

\* C8 witness: after a file was abandoned the next file is being downloaded
C8_Witness ==
    \E f \in 1..NFiles :
        /\ Abandoned(f)
        /\ pc = "loop"
        /\ CurFile # f

\* the text was read back and main went on to the download loop
ReadBackDone == spc = "done" /\ pc = "next"

\* C9: if the text is read back as it was written, every entry is selected.
C9_RoundTrip ==
    (ReadBackDone /\ removed = 0 /\ swaps = 0)
        => selected = [i \in 1..Len(files) |-> i]

\* C10: if the path line of entry i was deleted or commented out, whatever
\* the order of the other lines, the files processed are all other entries,
\* in manifest order.
C10_Exclusion ==
    (ReadBackDone /\ removed # 0)
        => selected = Ascending((1..Len(files)) \ {removed})

\* no title starts with the comment marker or starts or ends with whitespace
PlainTitles ==
    \A f \in 1..Len(files) :
        LET t == files[f].path[Len(files[f].path)]
        IN Head(t) = "a" /\ t[Len(t)] = "a"

\* with plain titles the round trip keeps every entry
RoundTripPlain == PlainTitles => C9_RoundTrip

\* with plain titles removing a line removes exactly its entry
ExclusionPlain == PlainTitles => C10_Exclusion

\* the addresses of the file nodes below a node: the positions to follow
\* through the lists of children
RECURSIVE FileAddrs(_)
FileAddrs(node) ==
    UNION {IF Children(node)[k].type = "folder"
           THEN {<<k>> \o a : a \in FileAddrs(Children(node)[k])}
           ELSE {<<k>>} : k \in 1..Len(Children(node))}

\* the node at an address, and the titles met on the way to it
RECURSIVE NodeAt(_, _)
NodeAt(node, a) ==
    IF Len(a) = 1 THEN Children(node)[a[1]]
    ELSE NodeAt(Children(node)[a[1]], Tail(a))

RECURSIVE TitlesTo(_, _)
TitlesTo(node, a) ==
    <<Children(node)[a[1]].title>>
    \o (IF Len(a) = 1 THEN <<>> ELSE TitlesTo(Children(node)[a[1]], Tail(a)))

\* a depth-first walk in manifest order meets file a before file b
RECURSIVE Before(_, _)
Before(a, b) ==
    \/ a[1] < b[1]
    \/ a[1] = b[1] /\ Len(a) > 1 /\ Len(b) > 1 /\ Before(Tail(a), Tail(b))

\* main has flattened the answer of the tracks API
Flattened == pc = "select" \/ (pc = "done" /\ outcome = "FileNotFoundError")

\* C11: flattening returns one entry per file node and no other: the k-th
\* entry is the file node that a depth-first walk in manifest order meets
\* after exactly k - 1 other file nodes, with that node as its info and the
\* titles of its ancestor folders (the root excluded) and its own title as
\* its path; folders without children add nothing and raise no error
C11_Flattening ==
    Flattened =>
        LET A == FileAddrs(directory) IN
        /\ Len(files) = Cardinality(A)
        /\ \A k \in 1..Len(files) :
              \E a \in A :
                 /\ Cardinality({b \in A : Before(b, a)}) = k - 1
                 /\ files[k].info = NodeAt(directory, a)
                 /\ files[k].path = TitlesTo(directory, a)
        /\ pc = "select" => outcome = "running"

\* a tree with a folder without children, a file inside a folder and two
\* files in all has been flattened
C11_Witness ==
    /\ pc = "select"
    /\ \E k \in 1..Len(Children(directory)) :
          /\ Children(directory)[k].type = "folder"
          /\ Children(Children(directory)[k]) = <<>>
    /\ \E a \in FileAddrs(directory) : Len(a) > 1
    /\ Len(files) >= 2

\* main waits for an API answer, for the editor, or for a HEAD check
AtFetch == pc \in {"workinfo", "tracks"}
InSession == pc = "select" /\ spc = "editor"
AtHead == pc \in {"head1", "head2"}

\* main is interrupted while it waits at one of these points
InterruptOutsideLoop ==
    \/ ManifestRaises("KeyboardInterrupt")
    \/ EditorRaises("KeyboardInterrupt")
    \/ HeadRaises("KeyboardInterrupt")

\* C12: main can be interrupted while it waits for the manifest, for the
\* editor or for a HEAD check; such an interrupt is not caught: main ends at
\* once with KeyboardInterrupt, no destination changes (the staging file of
\* the file being resolved is not relocated, its destination is as the run
\* found it), nothing is done for a later file, and nothing happens after
C12_InterruptAborts ==
    /\ [](/\ AtFetch => ENABLED ManifestRaises("KeyboardInterrupt")
          /\ InSession => ENABLED EditorRaises("KeyboardInterrupt")
          /\ AtHead => ENABLED HeadRaises("KeyboardInterrupt"))
    /\ [][InterruptOutsideLoop =>
            /\ pc' = "done"
            /\ outcome' = "KeyboardInterrupt"
            /\ dest' = dest
            /\ parents' = parents
            /\ \A c \in calls' \ calls : c.kind = "HEAD" /\ c.code = 0
            /\ AtHead => /\ dest'[CurFile] = dest0[CurFile]
                         /\ LaterUntouched']_vars
    /\ [][pc # "done"]_vars

\* a HEAD check of a file that is not the last one was interrupted
C12_Witness ==
    /\ pc = "done"
    /\ outcome = "KeyboardInterrupt"
    /\ cur < Len(selected)
    /\ \E c \in calls : c.file = CurFile /\ c.kind = "HEAD" /\ c.code = 0

\* C13: the temporary selection file and its directory exist while the
\* editor is open and are gone once the session is left, whichever way it
\* is left (read-back, failure of the editor, interrupt); when the editor
\* fails main ends with that failure: no transport call was or will be
\* issued, no staging directory exists, no destination is touched
C13_SelectionCleanup ==
    /\ [](/\ spc = "editor" => temp_dir /\ temp_file.ex
          /\ spc = "done" => ~temp_dir /\ ~temp_file.ex
          /\ pc = "done" => ~ENABLED Next)
    /\ [][/\ spc = "editor" /\ spc' # "editor" =>
                ReadBack \/ EditorRaises("CalledProcessError")
                         \/ EditorRaises("KeyboardInterrupt")
          /\ EditorRaises("CalledProcessError") =>
                /\ pc' = "done"
                /\ outcome' = "CalledProcessError"
                /\ calls' = {}
                /\ ~download_temp_dir'
                /\ staging' = NoStaging
                /\ dest' = dest]_vars

\* the editor failed after the user had removed an entry
C13_Witness ==
    /\ spc = "done"
    /\ pc = "done"
    /\ outcome = "CalledProcessError"
    /\ calls = {}
    /\ removed # 0

\* the state of the file at position i of the selection; STAGED is passed
\* inside one step, between the making of the staging file and the first
\* HEAD check
FileState(i) ==
    IF i > cur \/ (i = cur /\ pc = "next") THEN "PENDING"
    ELSE IF i = cur
    THEN (IF pc \in {"head1", "head2"} THEN "VERIFYING_URL"
          ELSE IF pc = "loop" THEN "DOWNLOADING" ELSE "ABANDONED")
    ELSE IF \A c \in calls : c.file # selected[i] THEN "SKIPPED"
    ELSE IF Call(selected[i], "HEAD", "mediaDownloadUrl", 200) \in calls
            \/ Call(selected[i], "HEAD", "mediaStreamUrl", 200) \in calls
    THEN "COMPLETE"
    ELSE "ABANDONED"

\* the changes of state a file may go through in one step
FileSteps ==
    {<<"PENDING", "SKIPPED">>, <<"PENDING", "VERIFYING_URL">>,
     <<"VERIFYING_URL", "VERIFYING_URL">>, <<"VERIFYING_URL", "DOWNLOADING">>,
     <<"VERIFYING_URL", "ABANDONED">>, <<"DOWNLOADING", "DOWNLOADING">>,
     <<"DOWNLOADING", "COMPLETE">>, <<"DOWNLOADING", "ABANDONED">>}

\* C14: each selected file goes PENDING -> SKIPPED, or PENDING -> (STAGED)
\* -> VERIFYING_URL -> DOWNLOADING -> COMPLETE, or leaves that path for
\* ABANDONED, and stays where it ended; a fetch is issued only for a URL
\* whose HEAD check for that file has answered 200; a step issues calls,
\* writes a destination and moves the state of the current file only, and
\* the next file becomes current only when this one is SKIPPED, COMPLETE or
\* ABANDONED
C14_FileOrdering ==
    [][/\ \A i \in 1..Len(selected) :
             \/ FileState(i)' = FileState(i)
             \/ /\ <<FileState(i), FileState(i)'>> \in FileSteps
                /\ i = cur
       /\ \A c \in calls' \ calls :
             /\ c.file = CurFile
             /\ c.kind = "GET" => Call(c.file, "HEAD", c.url, 200) \in calls
       /\ \A f \in 1..NFiles : dest'[f] # dest[f] => f = CurFile
       /\ cur' \in {cur, cur + 1}
       /\ cur' = cur + 1 =>
             /\ pc' = "next"
             /\ \A i \in {cur} :
                   FileState(i)' \in {"SKIPPED", "COMPLETE", "ABANDONED"}]_vars

\* the first file was abandoned, the second skipped or completed, and the
\* run is over
C14_Witness ==
    /\ pc = "done"
    /\ Len(selected) >= 2
    /\ cur = Len(selected) + 1
    /\ FileState(1) = "ABANDONED"
    /\ FileState(2) = "COMPLETE"

\* a fetch that delivers nothing leaves main where it was
FetchNothing == Fetch(0, TRUE) /\ UNCHANGED <<pc, cur, staging>>

\* C15: a run that is not interrupted, whose HEAD checks are answered and
\* whose fetches eventually append a byte ends, with every selected file
\* SKIPPED, COMPLETE or ABANDONED; the assumption on the fetches is needed:
\* while a staging file is below the declared size a fetch that delivers
\* nothing can always follow
C15_Termination ==
    /\ <>(/\ pc = "done"
          /\ outcome = "returned"
          /\ cur = Len(selected) + 1
          /\ \A i \in 1..Len(selected) :
                FileState(i) \in {"SKIPPED", "COMPLETE", "ABANDONED"})
    /\ []((pc = "loop" /\ LoopCond(CurFile)) => ENABLED FetchNothing)

\* a run has ended in which a file was completed after a fetch had failed,
\* another was abandoned
C15_Witness ==
    /\ pc = "done"
    /\ cur = Len(selected) + 1
    /\ \E i, j \in 1..Len(selected) :
          /\ FileState(i) = "COMPLETE"
          /\ FileState(j) = "ABANDONED"
          /\ \E c \in calls : c.file = selected[i] /\ c.kind = "GET"

IsPrefix(s, t) == Len(s) <= Len(t) /\ SubSeq(t, 1, Len(s)) = s

\* C17: over all runs, no step of main removes a destination file or takes
\* bytes from it: what a destination held before a step is a prefix of what
\* it holds after, so its size never decreases
C17_NoByteLoss ==
    [][\A f \in 1..NFiles :
          dest[f].ex => /\ dest'[f].ex
                        /\ IsPrefix(dest[f].data, dest'[f].data)]_vars

\* in a later run a destination that held bytes has grown
C17_Witness ==
    /\ run > 1
    /\ \E f \in 1..NFiles :
          /\ Size(dest0[f]) > 0
          /\ Size(dest[f]) > Size(dest0[f])

\* position j of the selection is an earlier file with the staging name of
\* the current file
SharesStaging(j) ==
    /\ j < cur
    /\ selected[j] # CurFile
    /\ StageName(selected[j]) = StageName(CurFile)

\* C18: when the first HEAD check of a file is about to be issued and an
\* earlier file of the selection has the same staging name, the staging file
\* holds the bytes of the current file's destination, or nothing when there
\* is no destination, and no byte of the earlier file, whether the earlier
\* file was completed, or abandoned with its staging file left behind
C18_StagingIsolation ==
    (pc = "head1" /\ \E j \in 1..Len(selected) : SharesStaging(j)) =>
        LET f == CurFile IN
        /\ staging[StageName(f)].ex
        /\ staging[StageName(f)].data = dest[f].data
        /\ \A n \in 1..Size(staging[StageName(f)]) :
              staging[StageName(f)].data[n] = f

\* the first file had a partial destination and was abandoned after two
\* non-200 answers; the second file has the same staging name and no
\* destination
C18_Witness ==
    /\ pc = "head1"
    /\ cur = 2
    /\ SharesStaging(1)
    /\ FileState(1) = "ABANDONED"
    /\ Size(dest0[selected[1]]) > 0
    /\ ~dest[CurFile].ex

\* C19: a HEAD check can fail in the transport; the failure is not answered
\* by another call and does not pass to the next file: main ends at once
\* with CalledProcessError, the destination of the current file is as the
\* run found it, nothing was or will be done for a later file
C19_HeadFailureAborts ==
    /\ [](/\ AtHead => ENABLED HeadRaises("CalledProcessError")
          /\ pc = "done" => ~ENABLED Next)
    /\ [][HeadRaises("CalledProcessError") =>
            /\ pc' = "done"
            /\ outcome' = "CalledProcessError"
            /\ cur' = cur
            /\ calls' \ calls \subseteq {Call(CurFile, "HEAD", url, 0)}
            /\ dest' = dest
            /\ dest'[CurFile] = dest0[CurFile]
            /\ LaterUntouched']_vars

\* the primary URL of a file with a partial destination answered 404, the
\* HEAD check of the fallback failed, and a later file was selected
C19_Witness ==
    /\ pc = "done"
    /\ outcome = "CalledProcessError"
    /\ cur < Len(selected)
    /\ Call(CurFile, "HEAD", "mediaDownloadUrl", 404) \in calls
    /\ Call(CurFile, "HEAD", "mediaStreamUrl", 0) \in calls
    /\ Size(dest[CurFile]) > 0

TypeOK ==
    /\ pc \in {"workinfo", "tracks", "select", "next", "head1", "head2", "loop", "done"}
    /\ spc \in {"start", "editor", "done"}
    /\ outcome \in {"running", "returned", "CalledProcessError", "KeyboardInterrupt",
                   "FileNotFoundError"}
    /\ url \in Urls \cup {"none"}
    /\ cur \in 1..(NFiles + 1)
    /\ fails \in 0..MaxFails
    /\ \A f \in 1..NFiles \cap DOMAIN files : Size(dest[f]) <= Declared(f) + Over

====
